---- MODULE Spec2Model ----
(***************************************************************************)
(* Model of the two command-line tools of desktop-app/assets:              *)
(*   resize_png.py  - the PNG resizer (function resize_png and its CLI)    *)
(*   png_to_ico.py  - the icon converter (function png_to_ico and its CLI) *)
(*                                                                         *)
(* Strings are sequences of one-character strings, so that path splitting, *)
(* number formatting and parsing are computed rather than assumed.         *)
(* Python floats are IEEE-754 doubles: a positive double is a record       *)
(* [z |-> FALSE, e |-> exponent of the leading bit, m |-> the 53-bit       *)
(* mantissa as five base-2^13 limbs, least significant first, the fifth    *)
(* being the leading 1]; its value is m * 2^(e - 52).                      *)
(***************************************************************************)
EXTENDS Integers, Sequences, FiniteSets, TLC

VARIABLES
    fs,     \* the filesystem: path |-> file content (an image, or Junk)
    call,   \* the arguments of the last invocation (NoCall before the first)
    out     \* what the last invocation did (NoOut before the first); out.pre
            \* is the filesystem it started on

vars == <<fs, call, out>>

\* Python's Optional: None is <<>>, a present value x is <<x>>
None == <<>>

Some(x) == <<x>>

\* ------------------------------------------------------------------------
\* Generic sequence helpers
\* ------------------------------------------------------------------------
Last(s) == s[Len(s)]

Front(s) == SubSeq(s, 1, Len(s) - 1)

\* the element of a one-element set: {F(x) : x \in {e}} computes e once
Only(S) == CHOOSE v \in S : TRUE

RECURSIVE Pow2(_)
Pow2(n) == IF n = 0 THEN 1 ELSE 2 * Pow2(n - 1)

\* ------------------------------------------------------------------------
\* IEEE-754 double arithmetic (round to nearest, ties to even), as far as
\* resize_png uses it: int / int, int * float, min(float, float), int(float).
\* All operands are non-negative and below 2^15.
\* ------------------------------------------------------------------------
LimbBits == 13

Base == Pow2(LimbBits)

FloatZero == [z |-> TRUE, e |-> 0, m |-> <<0, 0, 0, 0, 0>>]

\* limb i (from 1) of a limb sequence, 0 beyond its end
Limb(ls, i) == IF i \in 1..Len(ls) THEN ls[i] ELSE 0

\* limb i of floor(ls / 2^s)
ShrLimb(ls, s, i) ==
    LET q == s \div LimbBits
        r == s % LimbBits
    IN  (Limb(ls, i + q) \div Pow2(r))
          + (Limb(ls, i + q + 1) % Pow2(r)) * Pow2(LimbBits - r)

RECURSIVE ExpOf(_, _, _)
\* the e >= 0 with b * 2^e <= a < b * 2^(e+1), for a >= b > 0
ExpOf(a, b, e) == IF a < 2 * b * Pow2(e) THEN e ELSE ExpOf(a, b, e + 1)

RECURSIVE NegExpOf(_, _, _)
\* the k >= 1 with a * 2^k >= b > a * 2^(k-1), for 0 < a < b
NegExpOf(a, b, k) == IF a * Pow2(k) >= b THEN k ELSE NegExpOf(a, b, k + 1)

RECURSIVE BitLen(_)
BitLen(n) == IF n = 0 THEN 0 ELSE 1 + BitLen(n \div 2)

\* mantissa m with exponent e, rounded up by one unit in the last place
RoundUp(m, e) ==
    LET s1 == m[1] + 1
        s2 == m[2] + s1 \div Base
        s3 == m[3] + s2 \div Base
        s4 == m[4] + s3 \div Base
    IN  IF s4 \div Base = 1
        THEN [z |-> FALSE, e |-> e + 1, m |-> <<0, 0, 0, 0, 1>>]
        ELSE [z |-> FALSE, e |-> e, m |-> <<s1 % Base, s2 % Base, s3 % Base, s4, 1>>]

\* the double with exponent e nearest to the exact value whose leading 53
\* bits are m and whose remainder compares to one half as half does:
\* half is -1 (below), 0 (a tie) or 1 (above); ties go to the even mantissa
RoundNearest(m, e, half) ==
    IF half > 0 \/ (half = 0 /\ m[1] % 2 = 1)
    THEN RoundUp(m, e)
    ELSE [z |-> FALSE, e |-> e, m |-> m]

\* -1, 0 or 1 as x is below, equal to or above y
Compare(x, y) == IF x < y THEN 0 - 1 ELSE IF x = y THEN 0 ELSE 1

\* n / d for d <= n < 2d, times 2^e: leading bit 1, then four limbs by
\* long division, then the rounding
DivRound(n, d, e) ==
    LET t4 == (n - d) * Base
        t3 == (t4 % d) * Base
        t2 == (t3 % d) * Base
        t1 == (t2 % d) * Base
    IN  Only({ RoundNearest(<<q[1], q[2], q[3], q[4], 1>>, e, Compare(2 * q[5], d)) :
               q \in {<<t1 \div d, t2 \div d, t3 \div d, t4 \div d, t1 % d>>} })

\* a / b for integers a >= 0, b > 0: the correctly rounded double
PyTrueDiv(a, b) ==
    IF a = 0 THEN FloatZero
    ELSE Only({ DivRound(IF e >= 0 THEN a ELSE a * Pow2(0 - e),
                         IF e >= 0 THEN b * Pow2(e) ELSE b, e) :
                e \in {IF a >= b THEN ExpOf(a, b, 0) ELSE 0 - NegExpOf(a, b, 1)} })

\* the six-limb exact product p of an integer and a mantissa, brought back
\* to 53 bits and rounded; e is the exponent of the mantissa
MulRound(p, e) ==
    Only({ Only({ RoundNearest(m, e + drop,
                               IF drop = 0 THEN 0 - 1
                               ELSE Compare(2 * ((p[1] + Base * p[2]) % Pow2(drop)),
                                            Pow2(drop))) :
                  m \in {<<ShrLimb(p, drop, 1), ShrLimb(p, drop, 2), ShrLimb(p, drop, 3),
                           ShrLimb(p, drop, 4), ShrLimb(p, drop, 5)>>} }) :
           drop \in {BitLen(p[5] + Base * p[6]) - 1} })

\* c * x for an integer c >= 0 and a double x >= 0: the correctly rounded double
PyMulIntFloat(c, x) ==
    IF c = 0 \/ x.z THEN FloatZero
    ELSE LET p1 == x.m[1] * c
             p2 == x.m[2] * c + p1 \div Base
             p3 == x.m[3] * c + p2 \div Base
             p4 == x.m[4] * c + p3 \div Base
             top == c + p4 \div Base
         IN  Only({ MulRound(p, x.e) :
                    p \in {<<p1 % Base, p2 % Base, p3 % Base, p4 % Base,
                             top % Base, top \div Base>>} })

\* x < y for doubles x, y >= 0
FloatLess(x, y) ==
    IF y.z THEN FALSE
    ELSE IF x.z THEN TRUE
    ELSE IF x.e # y.e THEN x.e < y.e
    ELSE \E i \in 1..5 :
            /\ x.m[i] < y.m[i]
            /\ \A j \in (i + 1)..5 : x.m[j] = y.m[j]

\* min(x, y) of two arguments: x unless y < x
PyMin(x, y) == IF FloatLess(y, x) THEN y ELSE x

\* int(x) for a double 0 <= x < 2^26: truncation
PyInt(x) ==
    IF x.z \/ x.e < 0 THEN 0
    ELSE ShrLimb(x.m, 52 - x.e, 1) + Base * ShrLimb(x.m, 52 - x.e, 2)

\* (int(original_width * ratio), int(original_height * ratio)) for
\* ratio = min(width / original_width, height / original_height)
ScaledSize(width, height, original_width, original_height) ==
    Only({ <<Only({ PyInt(p) : p \in {PyMulIntFloat(original_width, ratio)} }),
             Only({ PyInt(p) : p \in {PyMulIntFloat(original_height, ratio)} })>> :
           ratio \in {PyMin(x, y) : x \in {PyTrueDiv(width, original_width)},
                                    y \in {PyTrueDiv(height, original_height)}} })

\* ------------------------------------------------------------------------
\* Python strings, as sequences of characters
\* ------------------------------------------------------------------------
Digits == <<"0", "1", "2", "3", "4", "5", "6", "7", "8", "9">>

IsDigit(c) == \E i \in 1..10 : Digits[i] = c

DigitVal(c) == (CHOOSE i \in 1..10 : Digits[i] = c) - 1

RECURSIVE NatStr(_)
NatStr(n) == IF n < 10 THEN <<Digits[n + 1]>> ELSE NatStr(n \div 10) \o <<Digits[(n % 10) + 1]>>

\* str(n), the "{n}" of an f-string
IntStr(n) == IF n < 0 THEN <<"-">> \o NatStr(0 - n) ELSE NatStr(n)

\* s.rfind(c), 1-based; 0 when c does not occur
RFind(s, c) ==
    IF \E i \in 1..Len(s) : s[i] = c
    THEN CHOOSE i \in 1..Len(s) : s[i] = c /\ \A j \in (i + 1)..Len(s) : s[j] # c
    ELSE 0

RECURSIVE RStrip(_, _)
RStrip(s, c) == IF s # <<>> /\ Last(s) = c THEN RStrip(Front(s), c) ELSE s

RECURSIVE LStrip(_, _)
LStrip(s, c) == IF s # <<>> /\ Head(s) = c THEN LStrip(Tail(s), c) ELSE s

\* s.split(c): the pieces between the occurrences of c (always at least one)
RECURSIVE Split(_, _)
Split(s, c) ==
    IF \A i \in 1..Len(s) : s[i] # c THEN <<s>>
    ELSE LET i == CHOOSE k \in 1..Len(s) : s[k] = c /\ \A j \in 1..(k - 1) : s[j] # c
         IN  <<SubSeq(s, 1, i - 1)>> \o Split(SubSeq(s, i + 1, Len(s)), c)

RECURSIVE DigitsVal(_)
DigitsVal(s) == IF s = <<>> THEN 0 ELSE 10 * DigitsVal(Front(s)) + DigitVal(Last(s))

\* int(s) of a string: Some(n), or None where Python raises ValueError.
\* Surrounding blanks and one sign are accepted (digit-group underscores
\* are not modelled).
StrToInt(s) ==
    LET t    == RStrip(LStrip(s, " "), " ")
        sign == IF t # <<>> /\ Head(t) \in {"+", "-"} THEN Head(t) ELSE ""
        d    == IF sign = "" THEN t ELSE Tail(t)
    IN  IF d = <<>> \/ \E i \in 1..Len(d) : ~IsDigit(d[i]) THEN None
        ELSE Some(IF sign = "-" THEN 0 - DigitsVal(d) ELSE DigitsVal(d))

\* os.path.split(p)
PathSplit(p) ==
    LET i    == RFind(p, "/")
        head == SubSeq(p, 1, i)
        tail == SubSeq(p, i + 1, Len(p))
    IN  IF head # <<>> /\ \E k \in 1..Len(head) : head[k] # "/"
        THEN <<RStrip(head, "/"), tail>>
        ELSE <<head, tail>>

\* os.path.splitext(p): the extension starts at the last dot of the last
\* component, unless only dots precede it there
PathSplitExt(p) ==
    LET sepIndex == RFind(p, "/")
        dotIndex == RFind(p, ".")
    IN  IF dotIndex > sepIndex /\ \E k \in (sepIndex + 1)..(dotIndex - 1) : p[k] # "."
        THEN <<SubSeq(p, 1, dotIndex - 1), SubSeq(p, dotIndex, Len(p))>>
        ELSE <<p, <<>> >>

\* os.path.join(a, b)
PathJoin(a, b) ==
    IF b # <<>> /\ Head(b) = "/" THEN b
    ELSE IF a = <<>> \/ Last(a) = "/" THEN a \o b
    ELSE a \o <<"/">> \o b

\* truth value of an Optional int / an Optional string in a Python condition
TruthyInt(x) == x # None /\ x[1] # 0

TruthyStr(x) == x # None /\ x[1] # <<>>

\* ------------------------------------------------------------------------
\* The image library, as far as the two tools use it.  An image is
\* [w, h, mode]; resampling itself is not modelled, only the size and pixel
\* mode of what it returns and the cases where it raises.
\* ------------------------------------------------------------------------
Junk == [w |-> 0, h |-> 0, mode |-> "junk"]

\* Image.open(path): the exception it raises, "" if it returns the image
OpenError(files, path) ==
    IF path \notin DOMAIN files THEN "FileNotFoundError"
    ELSE IF files[path] = Junk THEN "UnidentifiedImageError"
    ELSE ""

\* img.resize(size, LANCZOS) raises ValueError unless both sides are >= 1
ResizeRaises(size) == size[1] < 1 \/ size[2] < 1

\* Image.new('RGBA', size, color) raises on a colour that is not a tuple of
\* one, three or four elements
NewRaises(size, color) == size[1] < 0 \/ size[2] < 0 \/ Len(color) \notin {1, 3, 4}

\* the filesystem after writing content to path
WriteFile(files, path, content) ==
    [q \in DOMAIN files \cup {path} |-> IF q = path THEN content ELSE files[q]]

ModeScale == <<"s", "c", "a", "l", "e">>

ModeCrop == <<"c", "r", "o", "p">>

ModePad == <<"p", "a", "d">>

ModeStretch == <<"s", "t", "r", "e", "t", "c", "h">>

DefaultBackground == <<255, 255, 255, 0>>

\* ------------------------------------------------------------------------
\* resize_png.py
\* ------------------------------------------------------------------------

\* the size / mode / suffix tag of the output name
SizeTag(width, height, mode, output_suffix) ==
    LET size_tag == IF TruthyInt(width) /\ TruthyInt(height)
                    THEN <<"_">> \o IntStr(width[1]) \o <<"x">> \o IntStr(height[1])
                    ELSE IF TruthyInt(width) THEN <<"_", "w">> \o IntStr(width[1])
                    ELSE IF TruthyInt(height) THEN <<"_", "h">> \o IntStr(height[1])
                    ELSE <<>>
        mode_tag == IF mode # ModeScale THEN <<"_">> \o mode ELSE <<>>
        suffix_tag == IF TruthyStr(output_suffix) THEN <<"_">> \o output_suffix[1] ELSE <<>>
    IN  size_tag \o mode_tag \o suffix_tag

\* variant: the name is disambiguated once, with an if instead of the while
AvoidOverwrite_once(files, output_path, dirname, stem, ext, counter) ==
    IF output_path \in DOMAIN files
    THEN PathJoin(dirname, stem \o <<"_">> \o IntStr(counter) \o ext)
    ELSE output_path

RECURSIVE AvoidOverwrite(_, _, _, _, _, _)
\* the while loop: try "_{counter}" names until one does not exist
AvoidOverwrite(files, output_path, dirname, stem, ext, counter) ==
    IF output_path \in DOMAIN files
    THEN AvoidOverwrite(files, PathJoin(dirname, stem \o <<"_">> \o IntStr(counter) \o ext),
                        dirname, stem, ext, counter + 1)
    ELSE output_path

\* the output path derived from the input path and the tag
OutputPath(files, input_path, size_tag) ==
    LET dirname  == PathSplit(input_path)[1]
        basename == PathSplit(input_path)[2]
        name     == PathSplitExt(basename)[1]
        ext      == PathSplitExt(basename)[2]
    IN  AvoidOverwrite(files, PathJoin(dirname, name \o size_tag \o ext),
                       dirname, name \o size_tag, ext, 1)

\* (target_width, target_height)
TargetSize(width, height, mode, keep_aspect, original_width, original_height) ==
    IF keep_aspect /\ TruthyInt(width) /\ TruthyInt(height) /\ mode # ModeStretch
    THEN ScaledSize(width[1], height[1], original_width, original_height)
    ELSE <<IF TruthyInt(width) THEN width[1] ELSE original_width,
           IF TruthyInt(height) THEN height[1] ELSE original_height>>

\* pad mode: (new_width, new_height) of the scaled image
PadScaled(target, original_width, original_height) ==
    ScaledSize(target[1], target[2], original_width, original_height)

\* pad mode: where the scaled image is pasted on the canvas
PadOffset(target, scaled) ==
    <<(target[1] - scaled[1]) \div 2, (target[2] - scaled[2]) \div 2>>

ResizeNoOut ==
    [status |-> "error", exc |-> "", printed |-> <<>>, size_tag |-> <<>>,
     output_path |-> <<>>, target |-> <<>>, scaled |-> <<>>, canvas |-> <<>>,
     offset |-> <<>>, new_size |-> <<>>, original |-> <<>>]

\* variant: the output file is created before the step that fails
ResizeFailed_created(files, r, e) ==
    [fs |-> IF r.output_path = <<>> THEN files ELSE WriteFile(files, r.output_path, Junk),
     r  |-> [r EXCEPT !.status = "error", !.exc = e, !.printed = << <<"failed", e>> >>]]

\* the except clause: the message is printed, nothing is written
ResizeFailed(files, r, e) ==
    [fs |-> files,
     r  |-> [r EXCEPT !.status = "error", !.exc = e, !.printed = << <<"failed", e>> >>]]

\* the end of the try block: the image is saved and four lines are printed
ResizeSaved(files, r, input_path, content) ==
    [fs |-> WriteFile(files, r.output_path, content),
     r  |-> [r EXCEPT !.status = "ok",
                      !.new_size = <<content.w, content.h>>,
                      !.printed = << <<"kept", input_path>>,
                                     <<"created", r.output_path>>,
                                     <<"original size", r.original>>,
                                     <<"new size", <<content.w, content.h>> >> >>]]

\* resize_png(input_path, output_suffix, width, height, mode, background,
\* keep_aspect): the filesystem afterwards and the record of what was done
resize_png(files, input_path, output_suffix, width, height, mode, background, keep_aspect) ==
    IF OpenError(files, input_path) # ""
    THEN ResizeFailed(files, ResizeNoOut, OpenError(files, input_path))
    ELSE
    LET img  == files[input_path]
        original_width  == img.w
        original_height == img.h
        size_tag    == SizeTag(width, height, mode, output_suffix)
        output_path == OutputPath(files, input_path, size_tag)
        r1 == [ResizeNoOut EXCEPT !.size_tag = size_tag, !.output_path = output_path,
                                  !.original = <<original_width, original_height>>]
    IN  IF width = None /\ height = None
        THEN ResizeFailed(files, r1, "ValueError: width or height required")
        ELSE
        LET target == TargetSize(width, height, mode, keep_aspect,
                                 original_width, original_height)
            r2 == [r1 EXCEPT !.target = target]
        IN  IF mode = ModeScale \/ mode = ModeStretch
            THEN IF ResizeRaises(target)
                 THEN ResizeFailed(files, r2, "ValueError: height and width must be > 0")
                 ELSE ResizeSaved(files, r2, input_path,
                                  [w |-> target[1], h |-> target[2], mode |-> img.mode])
            ELSE IF mode = ModeCrop
            THEN IF ResizeRaises(target)
                 THEN ResizeFailed(files, r2, "ZeroDivisionError")
                 ELSE ResizeSaved(files, r2, input_path,
                                  [w |-> target[1], h |-> target[2], mode |-> img.mode])
            ELSE IF mode = ModePad
            THEN LET scaled == PadScaled(target, original_width, original_height)
                     r3 == [r2 EXCEPT !.scaled = scaled]
                 IN  IF ResizeRaises(scaled)
                     THEN ResizeFailed(files, r3, "ValueError: height and width must be > 0")
                     ELSE IF NewRaises(target, background)
                     THEN ResizeFailed(files, r3, "TypeError: color")
                     ELSE ResizeSaved(files,
                                      [r3 EXCEPT !.canvas = target,
                                                 !.offset = PadOffset(target, scaled)],
                                      input_path,
                                      [w |-> target[1], h |-> target[2], mode |-> "RGBA"])
            ELSE ResizeFailed(files, r2, "ValueError: unknown mode")

\* the background option of the command line: the tuple passed on, and
\* whether the format-error message was printed
ParseBackground(s) ==
    LET parts == Split(s, ",")
        vals  == [i \in 1..Len(parts) |-> StrToInt(parts[i])]
    IN  IF \E i \in 1..Len(parts) : vals[i] = None
        THEN [background |-> DefaultBackground, fallback |-> TRUE]
        ELSE LET bg_values == [i \in 1..Len(parts) |-> vals[i][1]]
                 bg4 == IF Len(bg_values) = 3 THEN Append(bg_values, 255) ELSE bg_values
             IN  [background |-> SubSeq(bg4, 1, IF Len(bg4) < 4 THEN Len(bg4) ELSE 4),
                  fallback |-> FALSE]

\* the command line of resize_png.py: argv is
\* [input, suffix, width, height, mode, background]
ResizeMain(argv) ==
    \E bg \in {ParseBackground(argv.background)} :
      \E r \in {resize_png(fs, argv.input, argv.suffix, argv.width, argv.height,
                           argv.mode, bg.background, TRUE)} :
        /\ call' = argv
        /\ fs' = r.fs
        /\ out' = [tool |-> "resize_png", pre |-> fs, uncaught |-> "",
                   background |-> bg.background, bg_fallback |-> bg.fallback,
                   r |-> [r.r EXCEPT !.printed =
                            (IF bg.fallback THEN << <<"background format error">> >> ELSE <<>>)
                            \o r.r.printed]]

\* ------------------------------------------------------------------------
\* png_to_ico.py
\* ------------------------------------------------------------------------
DefaultSizes ==
    <<<<16, 16>>, <<32, 32>>, <<48, 48>>, <<64, 64>>, <<128, 128>>, <<256, 256>>, <<512, 512>>>>

IcoExt == <<".", "i", "c", "o">>

IcoNoOut ==
    [status |-> "error", exc |-> "", printed |-> <<>>, output_path |-> <<>>,
     sizes |-> <<>>, ico_images |-> <<>>, primary |-> <<>>, append_images |-> <<>>]

\* the except clause of png_to_ico
IcoFailed(files, r, e) ==
    [fs |-> files,
     r  |-> [r EXCEPT !.status = "error", !.exc = e, !.printed = << <<"Error", e>> >>]]

\* variant: every copy is made square, on the width of its pair
IcoImages_square(sizes) ==
    LET bad == {i \in 1..Len(sizes) : ResizeRaises(sizes[i])}
        n   == IF bad = {} THEN Len(sizes)
               ELSE (CHOOSE i \in bad : \A j \in bad : i <= j) - 1
    IN  [i \in 1..n |-> <<sizes[i][1], sizes[i][1]>>]

\* the for loop: one resized copy per size, in order, each of exactly that
\* size; it stops at the first size the library refuses
IcoImages(sizes) ==
    LET bad == {i \in 1..Len(sizes) : ResizeRaises(sizes[i])}
        n   == IF bad = {} THEN Len(sizes)
               ELSE (CHOOSE i \in bad : \A j \in bad : i <= j) - 1
    IN  [i \in 1..n |-> <<sizes[i][1], sizes[i][2]>>]

\* png_to_ico(input_path, output_path, sizes)
png_to_ico(files, input_path, output_path_arg, sizes_arg) ==
    LET sizes == IF sizes_arg = None THEN DefaultSizes ELSE sizes_arg[1]
        output_path == IF output_path_arg = None
                       THEN PathSplitExt(input_path)[1] \o IcoExt
                       ELSE output_path_arg[1]
        r0 == [IcoNoOut EXCEPT !.output_path = output_path, !.sizes = sizes]
    IN  IF OpenError(files, input_path) # ""
        THEN IcoFailed(files, r0, OpenError(files, input_path))
        ELSE
        LET ico_images == IcoImages(sizes)
            r1 == [r0 EXCEPT !.ico_images = ico_images]
        IN  IF Len(ico_images) < Len(sizes)
            THEN IcoFailed(files, r1, "ValueError: height and width must be > 0")
            ELSE IF ico_images = <<>>
            THEN IcoFailed(files, r1, "IndexError")
            ELSE [fs |-> WriteFile(files, output_path,
                                   [w |-> ico_images[1][1], h |-> ico_images[1][2],
                                    mode |-> "ICO"]),
                  r  |-> [r1 EXCEPT !.status = "ok",
                                    !.primary = ico_images[1],
                                    !.append_images = Tail(ico_images),
                                    !.printed = << <<"Success", input_path, output_path>>,
                                                   <<"Sizes", sizes>> >>]]

\* a direct call of png_to_ico: args is [input, output, sizes]
PngToIcoCall(args) ==
    \E r \in {png_to_ico(fs, args.input, args.output, args.sizes)} :
        /\ call' = args
        /\ fs' = r.fs
        /\ out' = [tool |-> "png_to_ico", pre |-> fs, uncaught |-> "", r |-> r.r]

\* the command line of png_to_ico.py: argv is [input, output, sizes], sizes
\* being the text of the -s option.  The size list is parsed before
\* png_to_ico is entered, outside its try block.
IcoMain(argv) ==
    LET parts == Split(argv.sizes, ",")
        vals  == [i \in 1..Len(parts) |-> StrToInt(parts[i])]
    IN  IF \E i \in 1..Len(parts) : vals[i] = None
        THEN /\ call' = argv
             /\ fs' = fs
             /\ out' = [tool |-> "png_to_ico", pre |-> fs,
                        uncaught |-> "ValueError", r |-> IcoNoOut]
        ELSE LET sizes == [i \in 1..Len(parts) |-> <<vals[i][1], vals[i][1]>>]
             IN  \E r \in {png_to_ico(fs, argv.input, argv.output, Some(sizes))} :
                 /\ call' = argv
                 /\ fs' = r.fs
                 /\ out' = [tool |-> "png_to_ico", pre |-> fs,
                            uncaught |-> "", r |-> r.r]

\* ------------------------------------------------------------------------
\* Inputs and specifications
\* ------------------------------------------------------------------------
NoCall == [input |-> <<>>]

NoOut == [tool |-> "none", pre |-> <<>>, uncaught |-> ""]

A_png == <<"a", ".", "p", "n", "g">>

A_w3_png == <<"a", "_", "w", "3", ".", "p", "n", "g">>

A_w3_1_png == <<"a", "_", "w", "3", "_", "1", ".", "p", "n", "g">>

D_a_png == <<"d", "/", "a", ".", "p", "n", "g">>

J_png == <<"j", ".", "p", "n", "g">>

O_ico == <<"o", ".", "i", "c", "o">>

BgDefault == <<"2", "5", "5", ",", "2", "5", "5", ",", "2", "5", "5", ",", "0">>

\* the filesystem holding the given paths, with fixed contents
FilesOn(paths) ==
    [q \in paths |-> IF q = J_png THEN Junk
                     ELSE IF q = D_a_png THEN [w |-> 10, h |-> 4, mode |-> "RGBA"]
                     ELSE IF q \in {A_w3_png, A_w3_1_png} THEN [w |-> 3, h |-> 4, mode |-> "RGB"]
                     ELSE [w |-> 6, h |-> 4, mode |-> "RGB"]]

\* Spec: sequences of resizer invocations on a growing filesystem
MaxFiles == 4

InitialFilesystems ==
    {FilesOn(S) : S \in {{A_png, A_w3_png, A_w3_1_png}, {A_png, D_a_png}}}

\* invocations that name an output (width 0 gives the empty tag, suffix "1"
\* looks like a counter), invocations without any dimension, and one with a
\* height only
FileArgvs ==
    [input : {A_png, D_a_png}, suffix : {None, Some(<<"1">>)},
     width : {Some(0), Some(3)}, height : {None},
     mode : {ModeScale}, background : {BgDefault}]
    \cup
    [input : {A_png, D_a_png}, suffix : {None, Some(<<"1">>)},
     width : {None}, height : {None},
     mode : {ModeScale, ModePad}, background : {BgDefault}]
    \cup
    [input : {A_png}, suffix : {None},
     width : {None}, height : {Some(3)},
     mode : {ModePad}, background : {BgDefault}]
    \cup
    [input : {A_png}, suffix : {None},
     width : {Some(3)}, height : {Some(3)},
     mode : {ModeCrop, ModeStretch}, background : {BgDefault}]
    \cup
    [input : {J_png}, suffix : {None},
     width : {None, Some(3)}, height : {None},
     mode : {ModeScale}, background : {BgDefault}]

Init ==
    /\ fs \in InitialFilesystems
    /\ call = NoCall
    /\ out = NoOut

Next == \E argv \in FileArgvs : Cardinality(DOMAIN fs) < MaxFiles /\ ResizeMain(argv)

Spec == Init /\ [][Next]_vars

\* SpecCall: one resizer invocation on one image, over the sizes, modes,
\* suffixes and background texts that decide the dimension arithmetic
ImageSizes == {<<6, 4>>, <<10, 4>>, <<11, 11>>, <<10, 1>>}

BgStrings ==
    {BgDefault,
     <<"0", ",", "0", ",", "0">>,
     <<"0", ",", "0", ",", "0", ",", "0">>,
     <<"a", "b", "c">>,
     <<"1", ",", "2">>,
     <<"7">>,
     <<"1", ",", "2", ",", "3", ",", "4", ",", "5">>,
     <<"1", ",", ",", "3">>}

\* every width, height and mode; both suffix cases; every background text
CallArgvs ==
    [input : {A_png}, suffix : {None},
     width : {None, Some(0), Some(3), Some(5), Some(15)},
     height : {None, Some(0), Some(2), Some(5), Some(15)},
     mode : {ModeScale, ModeCrop, ModePad, ModeStretch},
     background : {BgDefault}]
    \cup
    [input : {A_png}, suffix : {Some(<<"x">>)},
     width : {None, Some(3)}, height : {None, Some(5)},
     mode : {ModeScale, ModePad},
     background : {BgDefault}]
    \cup
    [input : {A_png}, suffix : {None},
     width : {Some(3)}, height : {None, Some(5)},
     mode : {ModeScale, ModePad},
     background : BgStrings]

InitCall ==
    /\ fs \in {[q \in {A_png} |-> [w |-> sz[1], h |-> sz[2], mode |-> "RGB"]] : sz \in ImageSizes}
    /\ call = NoCall
    /\ out = NoOut

NextCall == \E argv \in CallArgvs : out.tool = "none" /\ ResizeMain(argv)

SpecCall == InitCall /\ [][NextCall]_vars

\* SpecIco: one icon converter invocation, from the command line or as a
\* direct call of png_to_ico
MaxSizes == 2

SizeTokens == {<<"1", "6">>, <<"3", "2">>, <<"0">>, <<"x">>, <<>>}

RECURSIVE Join(_, _)
Join(parts, c) ==
    IF Len(parts) = 1 THEN parts[1] ELSE parts[1] \o <<c>> \o Join(Tail(parts), c)

SeqsOf(S, lo, hi) == UNION {[1..n -> S] : n \in lo..hi}

SizesDefaultText ==
    <<"1", "6", ",", "3", "2", ",", "4", "8", ",", "6", "4", ",",
      "1", "2", "8", ",", "2", "5", "6">>

IcoArgvs ==
    [input : {A_png, J_png, D_a_png},
     output : {None, Some(O_ico)},
     sizes : {Join(t, ",") : t \in SeqsOf(SizeTokens, 1, MaxSizes)} \cup {SizesDefaultText}]

IcoArgs ==
    [input : {A_png, J_png, D_a_png},
     output : {None, Some(O_ico)},
     sizes : {None} \cup {Some(t) : t \in SeqsOf({<<16, 16>>, <<32, 16>>, <<0, 16>>}, 0, MaxSizes)}]

InitIco ==
    /\ fs \in {FilesOn({J_png}),
               FilesOn({J_png, A_png}),
               [q \in {J_png, A_png} |-> IF q = J_png THEN Junk
                                         ELSE [w |-> 64, h |-> 48, mode |-> "RGBA"]]}
    /\ call = NoCall
    /\ out = NoOut

NextIco ==
    \/ \E argv \in IcoArgvs : out.tool = "none" /\ IcoMain(argv)
    \/ \E args \in IcoArgs : out.tool = "none" /\ PngToIcoCall(args)

SpecIco == InitIco /\ [][NextIco]_vars

\* ------------------------------------------------------------------------
\* Properties
\* ------------------------------------------------------------------------
Resized == out.tool = "resize_png"

Converted == out.tool = "png_to_ico"

\* the n-th candidate name of the last resizer invocation: n = 0 is
\* directory/{name}{tag}{ext}, n >= 1 is directory/{name}{tag}_{n}{ext}
Candidate(n) ==
    LET dirname == PathSplit(call.input)[1]
        name    == PathSplitExt(PathSplit(call.input)[2])[1]
        ext     == PathSplitExt(PathSplit(call.input)[2])[2]
    IN  PathJoin(dirname, name \o out.r.size_tag
                          \o (IF n = 0 THEN <<>> ELSE <<"_">> \o IntStr(n)) \o ext)

\* C1: every successful resizer invocation writes the first candidate name
\* (no counter, then _1, _2, ...) that did not exist when it started; that
\* path is neither the input path nor any earlier file, and the files that
\* existed keep their content.
C1_FreshOutputPath ==
    (Resized /\ out.r.status = "ok") =>
        /\ \E n \in 0..Cardinality(DOMAIN out.pre) :
              /\ out.r.output_path = Candidate(n)
              /\ \A k \in 0..(n - 1) : Candidate(k) \in DOMAIN out.pre
        /\ out.r.output_path \notin DOMAIN out.pre
        /\ out.r.output_path # call.input
        /\ DOMAIN fs = DOMAIN out.pre \cup {out.r.output_path}
        /\ \A q \in DOMAIN out.pre : fs[q] = out.pre[q]

\* the collision example of the spec, one step further: a_w3.png and
\* a_w3_1.png exist, "a.png -W 3" writes a_w3_2.png
C1_Witness ==
    /\ Resized /\ out.r.status = "ok"
    /\ call.input = A_png /\ call.width = Some(3) /\ call.height = None
    /\ call.suffix = None /\ call.mode = ModeScale
    /\ {A_w3_png, A_w3_1_png} \subseteq DOMAIN out.pre
    /\ out.r.output_path = <<"a", "_", "w", "3", "_", "2", ".", "p", "n", "g">>

\* C4: an invocation with neither width nor height ends in an error that is
\* printed and absorbed, and leaves the filesystem as it was; when the input
\* opens, the error is the missing-dimension validation error.
C4_NoDimensionsNoOutput ==
    (Resized /\ call.width = None /\ call.height = None) =>
        /\ out.r.status = "error"
        /\ out.uncaught = ""
        /\ out.r.printed = << <<"failed", out.r.exc>> >>
        /\ fs = out.pre
        /\ OpenError(out.pre, call.input) = ""
              => out.r.exc = "ValueError: width or height required"

C4_Witness ==
    /\ Resized /\ call.width = None /\ call.height = None
    /\ call.mode = ModePad /\ call.suffix # None
    /\ out.r.exc = "ValueError: width or height required"
    /\ out.r.output_path # <<>>
    /\ out.r.output_path \notin DOMAIN fs

\* the original image of the last resizer invocation
Orig == out.r.original

Opened == Resized /\ out.r.original # <<>>

\* C2: in scale mode with only one dimension given, the other resolved
\* dimension follows the original aspect ratio (within one pixel of rounding)
\* instead of staying at the original size: 600x400 with width 300 resolves
\* to (300, 200).
C2_SingleDimensionKeepsAspect ==
    (Opened /\ call.mode = ModeScale /\ out.r.target # <<>>) =>
        /\ (call.width # None /\ call.width[1] > 0 /\ call.height = None) =>
              /\ out.r.target[1] = call.width[1]
              /\ out.r.target[2] * Orig[1] <= Orig[2] * call.width[1]
              /\ Orig[2] * call.width[1] < (out.r.target[2] + 1) * Orig[1]
        /\ (call.height # None /\ call.height[1] > 0 /\ call.width = None) =>
              /\ out.r.target[2] = call.height[1]
              /\ out.r.target[1] * Orig[2] <= Orig[1] * call.height[1]
              /\ Orig[1] * call.height[1] < (out.r.target[1] + 1) * Orig[2]

\* floor(a * min(W/ow, H/oh)) in exact arithmetic, for positive W, H, ow, oh
FloorScaled(a, W, H, ow, oh) ==
    IF W * oh <= H * ow THEN (a * W) \div ow ELSE (a * H) \div oh

\* C3: in pad mode with both W and H requested, the canvas is exactly W x H
\* and the image scaled by min(W/orig_w, H/orig_h) is pasted centred on it,
\* at ((W - new_w) div 2, (H - new_h) div 2): 1000x400 padded to 500x500 is
\* scaled to 500x200 and pasted at (0, 150).
C3_PadCanvasIsRequestedSize ==
    (Opened /\ call.mode = ModePad /\ out.r.status = "ok"
       /\ call.width # None /\ call.height # None
       /\ call.width[1] > 0 /\ call.height[1] > 0) =>
        LET W == call.width[1]
            H == call.height[1]
            new_w == FloorScaled(Orig[1], W, H, Orig[1], Orig[2])
            new_h == FloorScaled(Orig[2], W, H, Orig[1], Orig[2])
        IN  /\ out.r.canvas = <<W, H>>
            /\ out.r.scaled = <<new_w, new_h>>
            /\ out.r.offset = <<(W - new_w) \div 2, (H - new_h) \div 2>>

\* C5: no invocation of the icon converter lets an exception escape; every
\* failure, a malformed size list included, ends in a printed diagnostic.
C5_IcoFailuresAbsorbed ==
    Converted =>
        /\ out.uncaught = ""
        /\ out.r.status = "error" => out.r.printed = << <<"Error", out.r.exc>> >>

\* a background text is well formed when it is three or four integers
WellFormedBackground(s) ==
    /\ Len(Split(s, ",")) \in {3, 4}
    /\ \A i \in 1..Len(Split(s, ",")) : StrToInt(Split(s, ",")[i]) # None

\* C6: the background handed to resize_png is always four integers; a text
\* that is not a well-formed "R,G,B" or "R,G,B,A" is replaced by the default
\* (255,255,255,0), and "R,G,B" gets alpha 255; the resize is invoked in
\* every case.
C6_BackgroundAlwaysFourChannels ==
    Resized =>
        /\ Len(out.background) = 4
        /\ ~WellFormedBackground(call.background) =>
              out.background = DefaultBackground /\ out.bg_fallback
        /\ (WellFormedBackground(call.background) /\ Len(Split(call.background, ",")) = 3) =>
              out.background[4] = 255

\* C7: for a non-empty list of positive size pairs (and an input that
\* opens), the converter makes one copy per pair, in order, each of exactly
\* the pair's width and height, and saves the first as the primary image
\* with the others appended in order.
C7_OneVariantPerSize ==
    (Converted /\ out.uncaught = "" /\ OpenError(out.pre, call.input) = ""
       /\ out.r.sizes # <<>>
       /\ \A i \in 1..Len(out.r.sizes) : out.r.sizes[i][1] > 0 /\ out.r.sizes[i][2] > 0) =>
        /\ out.r.status = "ok"
        /\ Len(out.r.ico_images) = Len(out.r.sizes)
        /\ \A i \in 1..Len(out.r.sizes) : out.r.ico_images[i] = out.r.sizes[i]
        /\ out.r.primary = out.r.sizes[1]
        /\ out.r.append_images = Tail(out.r.sizes)
        /\ out.r.output_path \in DOMAIN fs
        /\ fs[out.r.output_path] = [w |-> out.r.sizes[1][1], h |-> out.r.sizes[1][2],
                                    mode |-> "ICO"]

C7_Witness ==
    /\ Converted /\ out.r.status = "ok"
    /\ call.sizes = Some(<<<<16, 16>>, <<32, 16>>>>)
    /\ out.r.append_images = <<<<32, 16>>>>

\* C8: the tag is "_{w}x{h}" when width and height were both supplied,
\* "_w{w}" / "_h{h}" when only one was, empty when neither; then "_{mode}"
\* unless the mode is scale; then "_{suffix}" if a suffix was supplied.
\* Supplied means given at all, the value 0 included.
C8_TagFromSuppliedArguments ==
    Opened =>
        out.r.size_tag =
            (IF call.width # None /\ call.height # None
             THEN <<"_">> \o IntStr(call.width[1]) \o <<"x">> \o IntStr(call.height[1])
             ELSE IF call.width # None THEN <<"_", "w">> \o IntStr(call.width[1])
             ELSE IF call.height # None THEN <<"_", "h">> \o IntStr(call.height[1])
             ELSE <<>>)
            \o (IF call.mode # ModeScale THEN <<"_">> \o call.mode ELSE <<>>)
            \o (IF call.suffix # None THEN <<"_">> \o call.suffix[1] ELSE <<>>)

\* C9 (on positive requested values): with both W and H given and a mode
\* other than stretch the resolved target is (floor(ow*r), floor(oh*r)),
\* r = min(W/ow, H/oh), which fits in W x H and meets it on one axis;
\* otherwise each resolved dimension is the given value, or the original
\* one where none was given.
C9_ResolvedTarget ==
    (Opened /\ out.r.target # <<>>
       /\ (call.width # None => call.width[1] > 0)
       /\ (call.height # None => call.height[1] > 0)) =>
        IF call.width # None /\ call.height # None /\ call.mode # ModeStretch
        THEN LET W == call.width[1]
                 H == call.height[1]
             IN  /\ out.r.target = <<FloorScaled(Orig[1], W, H, Orig[1], Orig[2]),
                                     FloorScaled(Orig[2], W, H, Orig[1], Orig[2])>>
                 /\ out.r.target[1] <= W /\ out.r.target[2] <= H
                 /\ out.r.target[1] = W \/ out.r.target[2] = H
        ELSE out.r.target = <<IF call.width # None THEN call.width[1] ELSE Orig[1],
                              IF call.height # None THEN call.height[1] ELSE Orig[2]>>

\* C10: with positive requested values the resolved target, and in pad mode
\* the scaled size, are at least 1 in both axes.
C10_NoZeroSizedResample ==
    (Opened /\ out.r.target # <<>>
       /\ (call.width # None => call.width[1] > 0)
       /\ (call.height # None => call.height[1] > 0)) =>
        /\ out.r.target[1] >= 1 /\ out.r.target[2] >= 1
        /\ out.r.scaled # <<>> => (out.r.scaled[1] >= 1 /\ out.r.scaled[2] >= 1)

====
